---- MODULE Spec2Model ----
(***************************************************************************)
(* Model of scp_r2r.py: secure copy between two remote hosts through a     *)
(* local ssh agent.  Strings are sequences of one-character strings, so    *)
(* that the line parser, the whitespace split and the glob matcher are     *)
(* computed the way the Python code computes them.                         *)
(***************************************************************************)
EXTENDS Integers, Sequences, FiniteSets, TLC

(* ------------------------------------------------------------------ *)
(* Bounds of the model                                                 *)
(* ------------------------------------------------------------------ *)

\* longest configuration text stepped through line by line (SpecParse)
MaxLines == 4
\* longest configuration file read by a whole run (Spec)
MaxFileLines == 3

(* ------------------------------------------------------------------ *)
(* Python values                                                       *)
(* ------------------------------------------------------------------ *)

\* None is the empty tuple and any other value v is <<v>>, where a variable
\* may hold either
None == << >>
Some(v) == <<v>>
EmptyDict == << >>

\* d[k] = v on a dict (a function whose domain is the set of its keys)
DictSet(d, k, v) ==
    [x \in (DOMAIN d) \cup {k} |-> IF x = k THEN v ELSE d[x]]

\* an assignment in place of the update: what d held is lost
DictUpdateMut(d, m) == m

\* d.update(m): the keys of m overwrite those of d
DictUpdate(d, m) ==
    [x \in (DOMAIN d) \cup (DOMAIN m) |-> IF x \in DOMAIN m THEN m[x] ELSE d[x]]

\* del d[k]
DictDel(d, k) == [x \in (DOMAIN d) \ {k} |-> d[x]]

(* ------------------------------------------------------------------ *)
(* Strings                                                             *)
(* ------------------------------------------------------------------ *)

kHost == <<"h","o","s","t">>
kHostname == <<"h","o","s","t","n","a","m","e">>
kIdentityfile == <<"i","d","e","n","t","i","t","y","f","i","l","e">>
kPort == <<"p","o","r","t">>
Star == <<"*">>

\* str.isspace() on one character
IsSpace(c) == c \in {" ", "\t", "\n", "\r"}

\* str.lower() on one character, for the letters the inputs use
LowerChar(c) ==
    CASE c = "H" -> "h"
      [] c = "P" -> "p"
      [] c = "I" -> "i"
      [] c = "F" -> "f"
      [] OTHER -> c

Lower(s) == [i \in 1..Len(s) |-> LowerChar(s[i])]

RECURSIVE LStrip(_)
LStrip(s) ==
    IF s # << >> /\ IsSpace(Head(s)) THEN LStrip(Tail(s)) ELSE s

RECURSIVE RStrip(_)
RStrip(s) ==
    IF s # << >> /\ IsSpace(s[Len(s)]) THEN RStrip(SubSeq(s, 1, Len(s) - 1)) ELSE s

Strip(s) == RStrip(LStrip(s))

\* line.rstrip('\n'): only trailing newlines go
RECURSIVE RStripNL(_)
RStripNL(s) ==
    IF s # << >> /\ s[Len(s)] = "\n" THEN RStripNL(SubSeq(s, 1, Len(s) - 1)) ELSE s

\* the least index of s holding a character of set cs, Len(s) + 1 if none
RECURSIVE FindFrom(_, _, _)
FindFrom(s, cs, i) ==
    IF i > Len(s) THEN i
    ELSE IF s[i] \in cs THEN i
    ELSE FindFrom(s, cs, i + 1)

FirstSpace(s) ==
    FindFrom(s, {" ", "\t", "\n", "\r"}, 1)

\* str.split(): the maximal runs of non-whitespace characters, in order
RECURSIVE Split(_)
Split(s) ==
    LET t == LStrip(s)
        e == FirstSpace(t)
    IN  IF t = << >> THEN << >>
        ELSE <<SubSeq(t, 1, e - 1)>> \o Split(SubSeq(t, e, Len(t)))

\* str.split(sep): the pieces between the occurrences of one character
RECURSIVE SplitOn(_, _)
SplitOn(s, sep) ==
    LET e == FindFrom(s, {sep}, 1)
    IN  IF e > Len(s) THEN <<s>>
        ELSE <<SubSeq(s, 1, e - 1)>> \o SplitOn(SubSeq(s, e + 1, Len(s)), sep)

\* fnmatch.fnmatch(name, pat) for patterns of literals, * and ?
RECURSIVE FnMatch(_, _)
FnMatch(name, pat) ==
    IF pat = << >> THEN name = << >>
    ELSE IF Head(pat) = "*"
         THEN \E k \in 0..Len(name) :
                 FnMatch(SubSeq(name, k + 1, Len(name)), Tail(pat))
    ELSE IF name = << >> THEN FALSE
    ELSE IF Head(pat) = "?" THEN FnMatch(Tail(name), Tail(pat))
    ELSE Head(pat) = Head(name) /\ FnMatch(Tail(name), Tail(pat))

(* ------------------------------------------------------------------ *)
(* SSHConfig                                                           *)
(* ------------------------------------------------------------------ *)

\* SSHConfig.__init__ : self._config
InitConfig == << (kHost :> Star) >>

\* the key and value of one stripped line; ok is FALSE for 'Unparsable line'
SplitLine(line) ==
    LET eq == FindFrom(line, {"="}, 1)
        i  == FirstSpace(line)
    IN  IF eq <= Len(line)
        THEN [ok |-> TRUE,
              key |-> Lower(Strip(SubSeq(line, 1, eq - 1))),
              value |-> SubSeq(line, eq + 1, Len(line))]
        ELSE IF i > Len(line)
        THEN [ok |-> FALSE, key |-> << >>, value |-> << >>]
        ELSE [ok |-> TRUE,
              key |-> Lower(SubSeq(line, 1, i - 1)),
              value |-> LStrip(SubSeq(line, i, Len(line)))]

\* a search that never finds the pre-existing rule
FirstRuleMut(cfg, host, i) == 0

\* index of the first rule of cfg whose pattern is host, 0 if none
RECURSIVE FirstRule(_, _, _)
FirstRule(cfg, host, i) ==
    IF i > Len(cfg) THEN 0
    ELSE IF cfg[i][kHost] = host THEN i
    ELSE FirstRule(cfg, host, i + 1)

\* the loop over value.split() of a host line; act holds rule indices
RECURSIVE AddHosts(_, _, _)
AddHosts(cfg, act, hosts) ==
    IF hosts = << >> THEN [config |-> cfg, configs |-> act]
    ELSE LET m == FirstRule(cfg, Head(hosts), 1)
         IN  IF m > 0
             THEN AddHosts(cfg, Append(act, m), Tail(hosts))
             ELSE AddHosts(Append(cfg, (kHost :> Head(hosts))),
                           Append(act, Len(cfg) + 1), Tail(hosts))

\* the pair written into the first active rule only
SetAllMut(cfg, act, key, value) ==
    IF act = << >> THEN cfg
    ELSE [cfg EXCEPT ![Head(act)] = DictSet(@, key, value)]

\* for config in configs: config[key] = value
RECURSIVE SetAll(_, _, _, _)
SetAll(cfg, act, key, value) ==
    IF act = << >> THEN cfg
    ELSE SetAll([cfg EXCEPT ![Head(act)] = DictSet(@, key, value)],
                Tail(act), key, value)

\* one iteration of the loop of SSHConfig.parse
ParseLine(cfg, act, raw) ==
    LET line == LStrip(RStripNL(raw))
        kv   == SplitLine(line)
    IN  IF line = << >> \/ Head(line) = "#"
        THEN [ok |-> TRUE, config |-> cfg, configs |-> act]
        ELSE IF ~kv.ok
        THEN [ok |-> FALSE, config |-> cfg, configs |-> act]
        ELSE IF kv.key = kHost
        THEN LET r == AddHosts(cfg, << >>, Split(kv.value))
             IN  [ok |-> TRUE, config |-> r.config, configs |-> r.configs]
        ELSE [ok |-> TRUE, config |-> SetAll(cfg, act, kv.key, kv.value),
              configs |-> act]

\* SSHConfig.parse over a whole file
RECURSIVE ParseFrom(_, _, _)
ParseFrom(cfg, act, lines) ==
    IF lines = << >> THEN [ok |-> TRUE, config |-> cfg, configs |-> act]
    ELSE LET r == ParseLine(cfg, act, Head(lines))
         IN  IF r.ok THEN ParseFrom(r.config, r.configs, Tail(lines)) ELSE r

Parse(cfg, lines) == ParseFrom(cfg, <<1>>, lines)

\* the rules of cfg matching hostname, in list order
Matches(cfg, hostname) ==
    SelectSeq(cfg, LAMBDA x : FnMatch(hostname, x[kHost]))

\* an insertion before the rules of equal length: a sort that is not stable
RECURSIVE InsertByLenMut(_, _)
InsertByLenMut(sorted, x) ==
    IF sorted = << >> THEN <<x>>
    ELSE IF Len(x[kHost]) <= Len(Head(sorted)[kHost])
         THEN <<x>> \o sorted
         ELSE <<Head(sorted)>> \o InsertByLenMut(Tail(sorted), x)

\* insert rule x into a list sorted by pattern length, after its equals
RECURSIVE InsertByLen(_, _)
InsertByLen(sorted, x) ==
    IF sorted = << >> THEN <<x>>
    ELSE IF Len(x[kHost]) < Len(Head(sorted)[kHost])
         THEN <<x>> \o sorted
         ELSE <<Head(sorted)>> \o InsertByLen(Tail(sorted), x)

\* matches.sort(cmp on len(host)): a stable sort
RECURSIVE SortByLen(_)
SortByLen(ms) ==
    IF ms = << >> THEN << >>
    ELSE InsertByLen(SortByLen(SubSeq(ms, 1, Len(ms) - 1)), ms[Len(ms)])

RECURSIVE MergeAll(_, _)
MergeAll(ret, ms) ==
    IF ms = << >> THEN ret ELSE MergeAll(DictUpdate(ret, Head(ms)), Tail(ms))

\* SSHConfig.lookup
Lookup(cfg, hostname) ==
    DictDel(MergeAll(EmptyDict, SortByLen(Matches(cfg, hostname))), kHost)

(* ------------------------------------------------------------------ *)
(* Inputs                                                              *)
(* ------------------------------------------------------------------ *)

\* lines of configuration text, as readlines() returns them
LnPortEq1 == kPort \o <<"=","1","\n">>
LnHostH1 == <<"H","o","s","t"," ","h","1","\n">>
LnHostGlobs == kHost \o <<" ","h","1","*"," ","h","*","\n">>
LnHostname == kHostname \o <<" ","x","\n">>
LnPort2 == <<"P">> \o Tail(kPort) \o <<" ","2","\n">>
LnBad == <<"b","a","d","\n">>
LnHostNone == kHost \o <<" ","\n">>
LnComment == <<" ","#","c","\n">>
LnHostStar == kHost \o <<" ","*","\n">>
LnHostQ == kHost \o <<" ","?","1","\n">>
LnHostBoth == kHost \o <<" ","h","1"," ","h","2","\n">>
LnIdentity == <<"I">> \o Tail(kIdentityfile) \o <<" ","k","\n">>
LnIdentity2 == kIdentityfile \o <<" ","j","\n">>
LnHostH2 == kHost \o <<" ","h","2","\n">>

\* the lines SpecParse steps through
ParseLines ==
    {LnPortEq1, LnHostH1, LnHostGlobs, LnHostname, LnPort2, LnBad,
     LnHostNone, LnComment, LnHostStar, LnHostQ}

\* the lines of the configuration files a whole run reads
FileLines ==
    {LnPortEq1, LnHostH1, LnHostBoth, LnHostname, LnIdentity, LnBad}

RECURSIVE SeqsUpTo(_, _)
SeqsUpTo(S, n) ==
    IF n = 0 THEN {<< >>}
    ELSE LET shorter == SeqsUpTo(S, n - 1)
         IN  shorter \cup {Append(s, x) : s \in shorter, x \in S}

\* a file of two host blocks in the shape of the example of the header,
\* each server with its own hostname and identity file lines
ExampleFile ==
    <<LnHostH1, LnHostname, LnIdentity, LnHostH2, LnHostname, LnIdentity2>>

ConfigFiles == SeqsUpTo(FileLines, MaxFileLines) \cup {ExampleFile}

\* host names looked up
nH1 == <<"h","1">>
nH2 == <<"h","2">>
nZZ == <<"z","z">>
HostNames == {nH1, nH2, nZZ}

\* positional arguments of the command line
Arg1Menu == {nH1 \o <<":","/","a">>, nZZ \o <<":","/","a">>, nH1}
Arg2Menu == {nH2 \o <<":","/","b">>, nH2 \o <<":">>, nZZ \o <<":","/","b">>}

\* the flags of a command line
FlagMenu == (SUBSET {"-C", "--pull"}) \cup {{"-v", "-r", "-l"}}
LimitArg == <<"5">>

kAuthSock == <<"SSH_AUTH_SOCK">>
kAgentPid == <<"SSH_AGENT_PID">>
kPageantPid == <<"SSH_PAGEANT_PID">>

\* os.environ as the process inherits it
InheritedEnvs ==
    {EmptyDict, (kAuthSock :> << >>), (kAuthSock :> <<"/inherited">>)}

\* what the agent executable may print when it starts; here a string is a
\* sequence of words and separators
OutAgent ==
    <<"SSH_AUTH_SOCK", "=", "/s", ";", " ", "export", " ", "SSH_AUTH_SOCK", ";",
      "\n", "SSH_AGENT_PID", "=", "7", ";">>
OutPageant ==
    <<"SSH_AUTH_SOCK", "=", "'", "/s", "'", ";", " ", "SSH_PAGEANT_PID", "=", "7", ";">>
OutPidOnly == <<"SSH_AGENT_PID", "=", "7", ";">>
OutNothing == <<"error">>
AgentOutputs == {OutAgent, OutPageant, OutPidOnly, OutNothing}

\* how a child process may end
Outcomes == {"ok", "nonzero", "oserror", "interrupt"}

(* ------------------------------------------------------------------ *)
(* Program constants and helpers of the run                            *)
(* ------------------------------------------------------------------ *)

SSH_PATH == <<"/usr/bin/ssh">>
SSH_AGENT_PATH == <<"/cygdrive/c/bin/ssh-pageant">>
SSH_ADD_PATH == <<"/usr/bin/ssh-add">>

\* the exit status of sys.exit(2) in main_transfer and of parser.error
ExitError == 2
\* the exit status of an uncaught exception
ExitTraceback == 1
ExitOk == 0

\* get_ssh_agent(): the dict of the inherited socket, or None
GetSshAgent(env) ==
    IF kAuthSock \in DOMAIN env
    THEN Some((kAuthSock :> env[kAuthSock]))
    ELSE None

\* a test of the socket value instead of the dict
NotAgentMut(a) == a = None \/ a[1][kAuthSock] = << >>

\* `not agent` on the value get_ssh_agent returns
NotAgent(a) == a = None \/ DOMAIN a[1] = {}

\* v.strip("'")
RECURSIVE StripQuotes(_)
StripQuotes(v) ==
    IF v # << >> /\ Head(v) = "'" THEN StripQuotes(Tail(v))
    ELSE IF v # << >> /\ v[Len(v)] = "'" THEN StripQuotes(SubSeq(v, 1, Len(v) - 1))
    ELSE v

\* re.findall('(SSH_AUTH_SOCK|SSH_AGENT_PID|SSH_PAGEANT_PID)=([^;]+);', output)
RECURSIVE FindAll(_, _)
FindAll(out, i) ==
    IF i > Len(out) THEN << >>
    ELSE LET semi == FindFrom(out, {";"}, i + 2)
         IN  IF /\ <<out[i]>> \in {kAuthSock, kAgentPid, kPageantPid}
                /\ i + 1 <= Len(out)
                /\ out[i + 1] = "="
                /\ semi <= Len(out)
                /\ semi > i + 2
             THEN << <<(<<out[i]>>), SubSeq(out, i + 2, semi - 1)>> >>
                      \o FindAll(out, semi + 1)
             ELSE FindAll(out, i + 1)

\* dict((k, v.strip("'")) for (k, v) in m)
RECURSIVE DictOfPairs(_, _)
DictOfPairs(d, m) ==
    IF m = << >> THEN d
    ELSE DictOfPairs(DictSet(d, Head(m)[1], StripQuotes(Head(m)[2])), Tail(m))

\* ssh_agent_start() once the agent has printed output: the agent dict, or
\* the exception raised
AgentFromOutput(output) ==
    LET m == FindAll(output, 1)
        agent == DictOfPairs(EmptyDict, m)
    IN  IF m = << >>
        THEN [raised |-> "ScpError", msg |-> "Cannot determine agent data", agent |-> EmptyDict]
        ELSE IF kAuthSock \notin DOMAIN agent
        THEN [raised |-> "KeyError", msg |-> "SSH_AUTH_SOCK", agent |-> agent]
        ELSE [raised |-> "", msg |-> "", agent |-> agent]

\* get_ssh_agent_env(agent): os.environ itself, updated in place
GetSshAgentEnv(env, agent) == DictUpdate(env, agent)

NoExc == [type |-> "", msg |-> ""]

\* a cleanup that is skipped while an exception is being propagated (no
\* try/finally around the transfer)
CleanupDueMut(started, e) == started /\ e = NoExc

\* a cleanup that runs only for a normal end and for a ScpError
CleanupDueScpErrorOnly(started, e) == started /\ e.type \in {"", "ScpError"}

\* line 290: whether the finally block calls ssh_agent_stop; the block runs
\* whatever exception e is being propagated
CleanupDue(started, e) == started

\* the exception run_command raises for a way the child ended
RunError(outcome) ==
    CASE outcome = "nonzero" -> [type |-> "ScpError", msg |-> "Process error"]
      [] outcome = "oserror" -> [type |-> "ScpError", msg |-> "Cannot start process"]
      [] outcome = "interrupt" -> [type |-> "KeyboardInterrupt", msg |-> ""]

\* the identity files with host2's ahead of host1's
IdentityFilesMut(h1, h2) ==
    (IF kIdentityfile \in DOMAIN h2.config THEN <<h2.config[kIdentityfile]>> ELSE << >>)
    \o (IF kIdentityfile \in DOMAIN h1.config THEN <<h1.config[kIdentityfile]>> ELSE << >>)

\* identity_files of main_transfer
IdentityFiles(h1, h2) ==
    (IF kIdentityfile \in DOMAIN h1.config THEN <<h1.config[kIdentityfile]>> ELSE << >>)
    \o (IF kIdentityfile \in DOMAIN h2.config THEN <<h2.config[kIdentityfile]>> ELSE << >>)

\* optparse: the options object a set of flags gives
ParseFlags(flags) ==
    [verbose |-> "-v" \in flags,
     push |-> ~("--pull" \in flags),
     limit |-> IF "-l" \in flags THEN Some(LimitArg) ELSE None,
     recursive |-> IF "-r" \in flags THEN Some(TRUE) ELSE None,
     compression |-> IF "-C" \in flags THEN Some(FALSE) ELSE None]

\* the truth value of an option that is None, True or False
Truthy(o) == o # None /\ o[1] = TRUE

\* scp(): the hosts and the two path arguments by direction
ConnectHost(opts, h1, h2) == IF opts.push THEN h1 ELSE h2
RemoteHost(opts, h1, h2) == IF opts.push THEN h2 ELSE h1
\* the host whose config['hostname'] scp() reads
HostnameNeeded(opts, h1, h2) == IF opts.push THEN h2 ELSE h1
ScpSource(opts, h1, h2) ==
    IF opts.push THEN h1.path
    ELSE h1.config[kHostname] \o <<":">> \o h1.path
\* a pull target without the fallback to the home directory
ScpTargetMut(opts, h1, h2) ==
    IF opts.push THEN h2.config[kHostname] \o <<":">> \o h2.path
    ELSE h2.path

ScpTarget(opts, h1, h2) ==
    IF opts.push THEN h2.config[kHostname] \o <<":">> \o h2.path
    ELSE IF h2.path # << >> THEN h2.path ELSE <<"~">>

\* overrides that leave out the identity file only
OverrideKeysMut(cfg) == (DOMAIN cfg) \ {kIdentityfile}

\* the keys scp() passes on as -o overrides
OverrideKeys(cfg) == (DOMAIN cfg) \ {kIdentityfile, kHostname}

\* the orders in which dict.items() may list a set of keys
ItemOrders(keys) ==
    {o \in [1..Cardinality(keys) -> keys] :
        \A i, j \in 1..Cardinality(keys) : i # j => o[i] # o[j]}

ScpOverrides(cfg, order) ==
    [i \in 1..Len(order) |-> <<"-o">> \o order[i] \o <<"=">> \o cfg[order[i]]]

\* the command scp() builds, given the order of the remote config's items
ScpCommand(opts, h1, h2, order) ==
    <<SSH_PATH, <<"-A">>, <<"-t">> >>
    \o (IF opts.verbose THEN << <<"-v">> >> ELSE << >>)
    \o <<ConnectHost(opts, h1, h2).name, <<"scp">>, <<"-p">> >>
    \o (IF opts.verbose THEN << <<"-v">> >> ELSE << >>)
    \o (IF opts.limit # None THEN << <<"-l">>, opts.limit[1] >> ELSE << >>)
    \o (IF Truthy(opts.recursive) THEN << <<"-r">> >> ELSE << >>)
    \o (IF Truthy(opts.compression) THEN << <<"-C">> >> ELSE << >>)
    \o ScpOverrides(RemoteHost(opts, h1, h2).config, order)
    \o <<ScpSource(opts, h1, h2), ScpTarget(opts, h1, h2)>>

(* ------------------------------------------------------------------ *)
(* State                                                               *)
(* ------------------------------------------------------------------ *)

VARIABLES
    pc,              \* position of the run
    options,         \* the options object of optparse, None before main()
    host1,           \* dict of host1: name, path and, once resolved, config
    host2,           \* dict of host2
    sshconfig,       \* SSHConfig._config: the list of rules
    configs,         \* parse(): the active rules, as indices into sshconfig
    line,            \* parse(): the line last read
    nlines,          \* parse(): how many lines were read
    environ,         \* os.environ
    agent,           \* main_transfer: agent, None or Some(dict)
    agent_started,   \* main_transfer: agent_started
    identity_files,  \* main_transfer: identity_files
    exc,             \* the exception being propagated, NoExc if none
    commands,        \* every run_command call so far: argv, outcome, output read
    printed,         \* the 'Error: ' messages printed
    exit_code        \* exit status of the process, None while it runs

vars == <<pc, options, host1, host2, sshconfig, configs, line, nlines, environ,
          agent, agent_started, identity_files, exc, commands, printed, exit_code>>

parseVars == <<sshconfig, configs, line, nlines>>
agentVars == <<environ, agent, agent_started, identity_files, commands>>

Init ==
    /\ pc = "main"
    /\ options = None
    /\ host1 = EmptyDict
    /\ host2 = EmptyDict
    /\ sshconfig = InitConfig
    /\ configs = <<1>>
    /\ line = << >>
    /\ nlines = 0
    /\ environ \in InheritedEnvs
    /\ agent = None
    /\ agent_started = FALSE
    /\ identity_files = << >>
    /\ exc = NoExc
    /\ commands = << >>
    /\ printed = << >>
    /\ exit_code = None

(* ------------------------------------------------------------------ *)
(* The run: main() and main_transfer()                                 *)
(* ------------------------------------------------------------------ *)

\* main(): option parsing and the split of the two host arguments
Main ==
    /\ pc = "main"
    /\ \E flags \in FlagMenu, a1 \in Arg1Menu, a2 \in Arg2Menu :
          LET p1 == SplitOn(a1, ":")
              p2 == SplitOn(a2, ":")
          IN  /\ options' = Some(ParseFlags(flags))
              /\ host1' = IF Len(p1) = 2
                          THEN [name |-> p1[1], path |-> p1[2]] ELSE EmptyDict
              /\ host2' = IF Len(p1) = 2 /\ Len(p2) = 2
                          THEN [name |-> p2[1], path |-> p2[2]] ELSE EmptyDict
              /\ IF Len(p1) = 2 /\ Len(p2) = 2
                 THEN pc' = "read_config" /\ exit_code' = exit_code
                 ELSE pc' = "exit" /\ exit_code' = Some(ExitError)
    /\ UNCHANGED <<parseVars, agentVars, exc, printed>>

\* read_ssh_config(), called outside the try of main_transfer
ReadConfig ==
    /\ pc = "read_config"
    /\ \E file \in ConfigFiles :
          LET r == Parse(InitConfig, file)
          IN  /\ sshconfig' = r.config
              /\ configs' = r.configs
              /\ IF r.ok
                 THEN pc' = "resolve" /\ exc' = exc
                 ELSE /\ pc' = "uncaught"
                      /\ exc' = [type |-> "Exception", msg |-> "Unparsable line"]
    /\ UNCHANGED <<options, host1, host2, line, nlines, agentVars, printed, exit_code>>

\* main_transfer lines 265-274: both lookups, then the unknown-host tests
Resolve ==
    /\ pc = "resolve"
    /\ LET c1 == Lookup(sshconfig, host1.name)
           c2 == Lookup(sshconfig, host2.name)
       IN  /\ host1' = [name |-> host1.name, path |-> host1.path, config |-> c1]
           /\ host2' = [name |-> host2.name, path |-> host2.path, config |-> c2]
           /\ IF DOMAIN c1 = {} \/ DOMAIN c2 = {}
              THEN /\ exc' = [type |-> "ScpError", msg |-> "Unknown host"]
                   /\ pc' = "except"
              ELSE /\ exc' = exc
                   /\ pc' = "get_agent"
    /\ UNCHANGED <<options, parseVars, agentVars, printed, exit_code>>

\* main_transfer lines 276-278
GetAgent ==
    /\ pc = "get_agent"
    /\ agent' = GetSshAgent(environ)
    /\ agent_started' = FALSE
    /\ pc' = IF NotAgent(agent') THEN "agent_start" ELSE "load_keys"
    /\ UNCHANGED <<options, host1, host2, parseVars, environ, identity_files,
                   exc, commands, printed, exit_code>>

\* main_transfer lines 279-280: ssh_agent_start() and agent_started = True
AgentStart ==
    /\ pc = "agent_start"
    /\ \E outcome \in Outcomes, output \in AgentOutputs :
          LET r == AgentFromOutput(output)
          IN  /\ commands' = Append(commands,
                                    [argv |-> <<SSH_AGENT_PATH>>, outcome |-> outcome,
                                     output |-> IF outcome = "ok" THEN output ELSE << >>])
              /\ IF outcome # "ok"
                 THEN /\ exc' = RunError(outcome)
                      /\ pc' = "except"
                      /\ UNCHANGED <<agent, agent_started>>
                 ELSE IF r.raised # ""
                 THEN /\ exc' = [type |-> r.raised, msg |-> r.msg]
                      /\ pc' = "except"
                      /\ UNCHANGED <<agent, agent_started>>
                 ELSE /\ agent' = Some(r.agent)
                      /\ agent_started' = TRUE
                      /\ pc' = "load_keys"
                      /\ exc' = exc
    /\ UNCHANGED <<options, host1, host2, parseVars, environ, identity_files,
                   printed, exit_code>>

\* main_transfer lines 282-287: identity_files and ssh_agent_load_keys()
LoadKeys ==
    /\ pc = "load_keys"
    /\ identity_files' = IdentityFiles(host1, host2)
    /\ IF identity_files' = << >>
       THEN /\ pc' = "scp"
            /\ UNCHANGED <<environ, commands, exc>>
       ELSE \E outcome \in Outcomes :
               /\ environ' = GetSshAgentEnv(environ, agent[1])
               /\ commands' = Append(commands,
                                     [argv |-> <<SSH_ADD_PATH>> \o identity_files',
                                      outcome |-> outcome, output |-> << >>])
               /\ IF outcome = "ok"
                  THEN pc' = "scp" /\ exc' = exc
                  ELSE pc' = "finally" /\ exc' = RunError(outcome)
    /\ UNCHANGED <<options, host1, host2, parseVars, agent, agent_started,
                   printed, exit_code>>

\* main_transfer line 288: scp()
Scp ==
    /\ pc = "scp"
    /\ IF kHostname \notin DOMAIN HostnameNeeded(options[1], host1, host2).config
       THEN /\ exc' = [type |-> "KeyError", msg |-> "hostname"]
            /\ pc' = "finally"
            /\ UNCHANGED <<environ, commands>>
       ELSE \E outcome \in Outcomes,
               order \in ItemOrders(OverrideKeys(RemoteHost(options[1], host1, host2).config)) :
               /\ environ' = GetSshAgentEnv(environ, agent[1])
               /\ commands' = Append(commands,
                                     [argv |-> ScpCommand(options[1], host1, host2, order),
                                      outcome |-> outcome, output |-> << >>])
               /\ exc' = IF outcome = "ok" THEN exc ELSE RunError(outcome)
               /\ pc' = "finally"
    /\ UNCHANGED <<options, host1, host2, parseVars, agent, agent_started,
                   identity_files, printed, exit_code>>

\* main_transfer lines 289-291: the finally block and ssh_agent_stop()
Finally ==
    /\ pc = "finally"
    /\ IF ~CleanupDue(agent_started, exc)
       THEN /\ pc' = IF exc = NoExc THEN "return" ELSE "except"
            /\ UNCHANGED <<environ, commands, exc>>
       ELSE \E outcome \in Outcomes :
               /\ environ' = GetSshAgentEnv(environ, agent[1])
               /\ commands' = Append(commands,
                                     [argv |-> <<SSH_AGENT_PATH, <<"-k">> >>,
                                      outcome |-> outcome, output |-> << >>])
               /\ exc' = IF outcome = "ok" THEN exc ELSE RunError(outcome)
               /\ pc' = IF exc' = NoExc THEN "return" ELSE "except"
    /\ UNCHANGED <<options, host1, host2, parseVars, agent, agent_started,
                   identity_files, printed, exit_code>>

\* main_transfer lines 292-294: except ScpError
Except ==
    /\ pc = "except"
    /\ IF exc.type = "ScpError"
       THEN /\ printed' = Append(printed, exc.msg)
            /\ exit_code' = Some(ExitError)
            /\ pc' = "exit"
       ELSE /\ pc' = "uncaught"
            /\ UNCHANGED <<printed, exit_code>>
    /\ UNCHANGED <<options, host1, host2, parseVars, agentVars, exc>>

\* an exception no handler takes: the interpreter prints a traceback
Uncaught ==
    /\ pc = "uncaught"
    /\ exit_code' = Some(ExitTraceback)
    /\ pc' = "exit"
    /\ UNCHANGED <<options, host1, host2, parseVars, agentVars, exc, printed>>

\* main_transfer and main return
Return ==
    /\ pc = "return"
    /\ exit_code' = Some(ExitOk)
    /\ pc' = "exit"
    /\ UNCHANGED <<options, host1, host2, parseVars, agentVars, exc, printed>>

Next ==
    \/ Main
    \/ ReadConfig
    \/ Resolve
    \/ GetAgent
    \/ AgentStart
    \/ LoadKeys
    \/ Scp
    \/ Finally
    \/ Except
    \/ Uncaught
    \/ Return

Spec == Init /\ [][Next]_vars

(* ------------------------------------------------------------------ *)
(* SSHConfig alone: parse() line by line, then one lookup()            *)
(* ------------------------------------------------------------------ *)

InitParse ==
    /\ pc = "parse"
    /\ options = None
    /\ host1 = EmptyDict
    /\ host2 = EmptyDict
    /\ sshconfig = InitConfig
    /\ configs = <<1>>
    /\ line = << >>
    /\ nlines = 0
    /\ environ = EmptyDict
    /\ agent = None
    /\ agent_started = FALSE
    /\ identity_files = << >>
    /\ exc = NoExc
    /\ commands = << >>
    /\ printed = << >>
    /\ exit_code = None

\* one iteration of the loop of parse()
ParseStep ==
    /\ pc = "parse"
    /\ nlines < MaxLines
    /\ \E raw \in ParseLines :
          LET r == ParseLine(sshconfig, configs, raw)
          IN  /\ line' = raw
              /\ nlines' = nlines + 1
              /\ sshconfig' = r.config
              /\ configs' = r.configs
              /\ IF r.ok
                 THEN pc' = pc /\ exc' = exc
                 ELSE /\ pc' = "parse_error"
                      /\ exc' = [type |-> "Exception", msg |-> "Unparsable line"]
    /\ UNCHANGED <<options, host1, host2, agentVars, printed, exit_code>>

\* lookup(hostname) on the rules parsed so far
LookupStep ==
    /\ pc = "parse"
    /\ \E h \in HostNames :
          host1' = [name |-> h, path |-> << >>, config |-> Lookup(sshconfig, h)]
    /\ pc' = "looked"
    /\ UNCHANGED <<options, host2, parseVars, agentVars, exc, printed, exit_code>>

NextParse ==
    \/ ParseStep
    \/ LookupStep

SpecParse == InitParse /\ [][NextParse]_vars

(* ------------------------------------------------------------------ *)
(* Vocabulary of the properties                                        *)
(* ------------------------------------------------------------------ *)

Range(f) == {f[i] : i \in DOMAIN f}

\* the run_command calls of one kind
SpawnCalls == {i \in DOMAIN commands : commands[i].argv = <<SSH_AGENT_PATH>>}
StopCalls == {i \in DOMAIN commands : commands[i].argv = <<SSH_AGENT_PATH, <<"-k">> >>}
AddCalls == {i \in DOMAIN commands : commands[i].argv[1] = SSH_ADD_PATH}
ScpCalls == {i \in DOMAIN commands : commands[i].argv[1] = SSH_PATH}

\* both lookups of main_transfer were done
Resolved == "config" \in DOMAIN host1 /\ "config" \in DOMAIN host2

\* the run holds an agent session, inherited or spawned
HasSession == agent # None

\* the rules other than the default one that match a name
NonDefaultMatches(name) ==
    {i \in 2..Len(sshconfig) : FnMatch(name, sshconfig[i][kHost])}

\* both hosts were looked up and each matches a rule other than the default
KnownBoth ==
    /\ Resolved
    /\ NonDefaultMatches(host1.name) # {}
    /\ NonDefaultMatches(host2.name) # {}

\* the scp step was entered: the session exists, key loading did not fail
\* and the run is past line 288
PastScp ==
    /\ HasSession
    /\ pc \in {"finally", "return", "except", "uncaught", "exit"}
    /\ \A i \in AddCalls : commands[i].outcome = "ok"

(* ------------------------------------------------------------------ *)
(* C1                                                                  *)
(* ------------------------------------------------------------------ *)

\* C1: in a run that obtained an agent session, ssh_agent_stop is never
\* called twice, is never called for an inherited session, and once the run
\* has ended it was called exactly once if the session is owned, whichever
\* way the run ended.
C1_StopExactlyOnceIffOwned ==
    /\ Cardinality(StopCalls) <= 1
    /\ StopCalls # {} => (HasSession /\ agent_started)
    /\ (HasSession /\ pc \in {"return", "except", "uncaught", "exit"})
          => Cardinality(StopCalls) = (IF agent_started THEN 1 ELSE 0)

\* an owned session, a transfer that exited non-zero, the run over
C1_Witness ==
    /\ pc = "exit"
    /\ agent_started
    /\ \E i \in ScpCalls : commands[i].outcome = "nonzero"
    /\ Cardinality(StopCalls) = 1

(* ------------------------------------------------------------------ *)
(* C2                                                                  *)
(* ------------------------------------------------------------------ *)

\* C2: once both hosts are looked up, if host1 or host2 matches no rule
\* other than the default one, the run is ending with the Unknown host
\* error, and no agent was detected or spawned, no key was loaded and no
\* transfer was started.
C2_UnknownHostRejected ==
    (Resolved /\ pc # "resolve"
       /\ (NonDefaultMatches(host1.name) = {} \/ NonDefaultMatches(host2.name) = {}))
    => /\ exc = [type |-> "ScpError", msg |-> "Unknown host"]
       /\ agent = None
       /\ commands = << >>

(* ------------------------------------------------------------------ *)
(* C3                                                                  *)
(* ------------------------------------------------------------------ *)

\* C3: right after the agent was looked up or started (os.environ is still
\* as inherited), the session is owned iff the environment holds no
\* SSH_AUTH_SOCK; with the variable present, whatever its value, the agent
\* was not spawned and the session wraps the inherited value.  At any time,
\* an owned session was spawned by this run and an inherited one was not.
C3_OwnedIffNoInheritedSocket ==
    /\ pc = "agent_start" => kAuthSock \notin DOMAIN environ
    /\ pc = "load_keys" =>
          /\ agent_started <=> kAuthSock \notin DOMAIN environ
          /\ kAuthSock \in DOMAIN environ =>
                /\ agent = Some((kAuthSock :> environ[kAuthSock]))
                /\ SpawnCalls = {}
    /\ agent_started => \E i \in SpawnCalls : commands[i].outcome = "ok"
    /\ (HasSession /\ ~agent_started) => SpawnCalls = {}

\* SSH_AUTH_SOCK is inherited with the empty string as its value
C3_Witness ==
    /\ pc = "load_keys"
    /\ kAuthSock \in DOMAIN environ
    /\ environ[kAuthSock] = << >>
    /\ ~agent_started
    /\ SpawnCalls = {}

(* ------------------------------------------------------------------ *)
(* C4                                                                  *)
(* ------------------------------------------------------------------ *)

\* the rules matching the name looked up
MatchSet == {i \in 1..Len(sshconfig) : FnMatch(host1.name, sshconfig[i][kHost])}

\* rule i is merged before rule j: shorter pattern, or equal length and
\* earlier in the list
MergedBefore(i, j) ==
    \/ Len(sshconfig[i][kHost]) < Len(sshconfig[j][kHost])
    \/ Len(sshconfig[i][kHost]) = Len(sshconfig[j][kHost]) /\ i < j

\* the matching rules that set key k
Setters(k) == {i \in MatchSet : k \in DOMAIN sshconfig[i]}

\* C4: the mapping lookup returns gives every option set by a matching rule
\* the value of the rule merged last among those that set it, in ascending
\* order of pattern length with ties in parse order; so where a matching
\* rule other than the default one sets a key, the value is not one that
\* only the default rule gives.
C4_LookupMergeOrder ==
    pc = "looked" =>
       \A k \in (UNION {DOMAIN sshconfig[i] : i \in MatchSet}) \ {kHost} :
          /\ k \in DOMAIN host1.config
          /\ \E i \in Setters(k) :
                /\ \A j \in Setters(k) : j = i \/ MergedBefore(j, i)
                /\ host1.config[k] = sshconfig[i][k]
          /\ (Setters(k) \ {1} # {}) =>
                \E i \in Setters(k) \ {1} : host1.config[k] = sshconfig[i][k]

\* the default rule sets port 1, the rule of h1 sets port 2, h1 gets 2
C4_Witness ==
    /\ pc = "looked"
    /\ host1.name = nH1
    /\ kPort \in DOMAIN sshconfig[1]
    /\ sshconfig[1][kPort] = <<"1">>
    /\ \E i \in 2..Len(sshconfig) :
          /\ sshconfig[i][kHost] = nH1
          /\ kPort \in DOMAIN sshconfig[i]
          /\ sshconfig[i][kPort] = <<"2">>
    /\ host1.config[kPort] = <<"2">>

(* ------------------------------------------------------------------ *)
(* C5                                                                  *)
(* ------------------------------------------------------------------ *)

\* the line last parsed, split as parse() splits it
LastLine == LStrip(RStripNL(line))
LastSkipped == LastLine = << >> \/ Head(LastLine) = "#"
LastIsHost == ~LastSkipped /\ SplitLine(LastLine).ok /\ SplitLine(LastLine).key = kHost
LastIsOption == ~LastSkipped /\ SplitLine(LastLine).ok /\ SplitLine(LastLine).key # kHost

\* C5: no two rules have the same pattern; after a host line, each pattern
\* it names is the pattern of exactly one rule and that rule is active; and
\* after an option line every active rule holds the value of that line for
\* its key, whatever it held before.
C5_RulesUniqueAndReused ==
    /\ \A i, j \in 1..Len(sshconfig) :
          sshconfig[i][kHost] = sshconfig[j][kHost] => i = j
    /\ (pc = "parse" /\ nlines > 0 /\ LastIsHost) =>
          \A h \in Range(Split(SplitLine(LastLine).value)) :
             \E i \in Range(configs) :
                /\ sshconfig[i][kHost] = h
                /\ \A j \in 1..Len(sshconfig) : sshconfig[j][kHost] = h => j = i
    /\ (pc = "parse" /\ nlines > 0 /\ LastIsOption) =>
          \A i \in Range(configs) :
             /\ SplitLine(LastLine).key \in DOMAIN sshconfig[i]
             /\ sshconfig[i][SplitLine(LastLine).key] = SplitLine(LastLine).value

\* a second host line for h1, whose rule already holds an option, made
\* that same rule the active one
C5_Witness ==
    /\ pc = "parse"
    /\ line = LnHostH1
    /\ \E i \in 2..Len(sshconfig) :
          /\ sshconfig[i][kHost] = nH1
          /\ kPort \in DOMAIN sshconfig[i]
          /\ configs = <<i>>

(* ------------------------------------------------------------------ *)
(* C6                                                                  *)
(* ------------------------------------------------------------------ *)

\* command i connects to host1 and ends with host1's path and
\* "<host2 hostname>:<host2 path>"
IsPushCommand(i) ==
    LET argv == commands[i].argv
    IN  /\ kHostname \in DOMAIN host2.config
        /\ \E c \in 4..5 : argv[c] = host1.name /\ argv[c + 1] = <<"scp">>
        /\ argv[Len(argv) - 1] = host1.path
        /\ argv[Len(argv)] = host2.config[kHostname] \o <<":">> \o host2.path

\* C6: once the scp step of a push transfer was entered, the command it
\* built connects to host1 and ends with host1's path and
\* "<host2 hostname>:<host2 path>", or the step raised a ScpError; this for
\* every host2 the run accepted, with or without a hostname option.
C6_PushCommandBuilt ==
    (PastScp /\ options[1].push /\ KnownBoth) =>
       \/ \E i \in ScpCalls : IsPushCommand(i)
       \/ exc.type = "ScpError"

(* ------------------------------------------------------------------ *)
(* C7                                                                  *)
(* ------------------------------------------------------------------ *)

\* the flag -C was on the command line: optparse stored a value
CompressionPassed == options[1].compression # None

\* C7: the command of a transfer between two known hosts holds -C iff -C
\* was passed to the run.
C7_CompressionIffPassed ==
    \A i \in ScpCalls :
       KnownBoth => ((<<"-C">> \in Range(commands[i].argv)) <=> CompressionPassed)

(* ------------------------------------------------------------------ *)
(* C8                                                                  *)
(* ------------------------------------------------------------------ *)

\* the errors of a run: ScpError (unknown host, process error, process
\* start error, agent data) and the parser's 'Unparsable line'
IsRunError(e) == e.type \in {"ScpError", "Exception"}

\* C8: a run that ended on an error printed its message and exited with
\* status 2, and no agent start, key loading or transfer ran twice.
C8_ErrorsReportedExit2 ==
    /\ (pc = "exit" /\ IsRunError(exc)) =>
          /\ exit_code = Some(ExitError)
          /\ printed = <<exc.msg>>
    /\ Cardinality(SpawnCalls) <= 1
    /\ Cardinality(AddCalls) <= 1
    /\ Cardinality(ScpCalls) <= 1

(* ------------------------------------------------------------------ *)
(* C9                                                                  *)
(* ------------------------------------------------------------------ *)

\* the -o arguments of a command
IsOverride(a) == Len(a) >= 1 /\ a[1] = "-o"
OverrideArgs(argv) == {c \in 1..Len(argv) : IsOverride(argv[c])}
OverrideOf(k, v) == <<"-o">> \o k \o <<"=">> \o v
HasPrefix(a, p) == Len(a) >= Len(p) /\ SubSeq(a, 1, Len(p)) = p

RemoteConfig == IF options[1].push THEN host2.config ELSE host1.config
ConnectConfig == IF options[1].push THEN host1.config ELSE host2.config

\* C9: in either direction the -o arguments of the transfer command are the
\* options of the remote host's resolved config except identityfile and
\* hostname, each exactly once; an option of the connect host's config is
\* among them only as far as the remote host's config holds the same option.
C9_OverridesFromRemoteConfig ==
    \A i \in ScpCalls :
       LET argv == commands[i].argv
           keys == (DOMAIN RemoteConfig) \ {kIdentityfile, kHostname}
       IN  /\ {argv[c] : c \in OverrideArgs(argv)}
                 = {OverrideOf(k, RemoteConfig[k]) : k \in keys}
           /\ Cardinality(OverrideArgs(argv)) = Cardinality(keys)
           /\ \A c \in OverrideArgs(argv) :
                 /\ ~HasPrefix(argv[c], <<"-o">> \o kHostname \o <<"=">>)
                 /\ ~HasPrefix(argv[c], <<"-o">> \o kIdentityfile \o <<"=">>)
           /\ \A k \in DOMAIN ConnectConfig :
                 (\E c \in OverrideArgs(argv) : argv[c] = OverrideOf(k, ConnectConfig[k]))
                    => (k \in DOMAIN RemoteConfig /\ RemoteConfig[k] = ConnectConfig[k])

\* C9 as first stated, for two hosts that each match a rule of their own:
\* the overrides are the remote host's options, and no option of the connect
\* host's resolved config is among them.
C9_NoConnectOptionEmitted ==
    \A i \in ScpCalls :
       KnownBoth =>
       LET argv == commands[i].argv
           keys == (DOMAIN RemoteConfig) \ {kIdentityfile, kHostname}
       IN  /\ {argv[c] : c \in OverrideArgs(argv)}
                 = {OverrideOf(k, RemoteConfig[k]) : k \in keys}
           /\ \A k \in DOMAIN ConnectConfig :
                 \A c \in OverrideArgs(argv) : argv[c] # OverrideOf(k, ConnectConfig[k])

\* a pull between two known hosts whose remote host1 has a port and a
\* hostname: the one override is host1's port
C9_Witness ==
    /\ ScpCalls # {}
    /\ KnownBoth
    /\ ~options[1].push
    /\ {kPort, kHostname} \subseteq DOMAIN host1.config
    /\ \A i \in ScpCalls :
          {commands[i].argv[c] : c \in OverrideArgs(commands[i].argv)}
             = {OverrideOf(kPort, host1.config[kPort])}

(* ------------------------------------------------------------------ *)
(* C10                                                                 *)
(* ------------------------------------------------------------------ *)

\* the agent was spawned, exited zero and printed text without the key
\* SSH_AUTH_SOCK
SpawnedWithoutSock ==
    \E i \in SpawnCalls :
       /\ commands[i].outcome = "ok"
       /\ "SSH_AUTH_SOCK" \notin Range(commands[i].output)

\* C10: in a run for two known hosts, when the spawned agent's output lacks
\* SSH_AUTH_SOCK, with or without a process-id key in it, the agent start
\* raised the ScpError 'Cannot determine agent data', which is printed with
\* exit status 2, and neither key loading nor the transfer was started.
C10_NoSockIsProcessError ==
    (KnownBoth /\ SpawnedWithoutSock) =>
       /\ exc = [type |-> "ScpError", msg |-> "Cannot determine agent data"]
       /\ AddCalls = {} /\ ScpCalls = {}
       /\ pc = "exit" => (exit_code = Some(ExitError) /\ printed = <<exc.msg>>)

(* ------------------------------------------------------------------ *)
(* C11                                                                 *)
(* ------------------------------------------------------------------ *)

\* the teardown was not interrupted: it ran to an exit status or could not
\* be started
StopNotInterrupted == \A i \in StopCalls : commands[i].outcome # "interrupt"

\* C11: a run for two known hosts that has ended has the outcome of its
\* transfer, however the teardown of the agent ended: exit status 0 if the
\* transfer command exited zero, and the transfer's error as the one printed
\* if the transfer command exited non-zero or could not be started.
C11_OutcomeIsTransferOutcome ==
    (pc = "exit" /\ KnownBoth /\ StopNotInterrupted) =>
       \A i \in ScpCalls :
          /\ commands[i].outcome = "ok" => exit_code = Some(ExitOk)
          /\ commands[i].outcome \in {"nonzero", "oserror"} =>
                printed = <<RunError(commands[i].outcome).msg>>

(* ------------------------------------------------------------------ *)
(* C12                                                                 *)
(* ------------------------------------------------------------------ *)

\* C12: the command of a pull transfer connects to host2's alias and ends
\* with "<host1 hostname>:<host1 path>" and then host2's path, or ~ where
\* that path is empty, so that the target is never the empty string; and a
\* pull whose host1 has a hostname does build that command.
C12_PullCommand ==
    /\ \A i \in ScpCalls :
          ~options[1].push =>
             LET argv == commands[i].argv
             IN  /\ kHostname \in DOMAIN host1.config
                 /\ \E c \in 4..5 : argv[c] = host2.name /\ argv[c + 1] = <<"scp">>
                 /\ argv[Len(argv) - 1]
                       = host1.config[kHostname] \o <<":">> \o host1.path
                 /\ argv[Len(argv)]
                       = (IF host2.path = << >> THEN <<"~">> ELSE host2.path)
                 /\ argv[Len(argv)] # << >>
    /\ (PastScp /\ ~options[1].push /\ kHostname \in DOMAIN host1.config)
          => ScpCalls # {}

\* a pull between two known hosts with an empty host2 path: the target is ~
C12_Witness ==
    /\ KnownBoth
    /\ ~options[1].push
    /\ host2.path = << >>
    /\ \E i \in ScpCalls : commands[i].argv[Len(commands[i].argv)] = <<"~">>

(* ------------------------------------------------------------------ *)
(* C13                                                                 *)
(* ------------------------------------------------------------------ *)

\* the options of a rule: its dict without the pattern
RuleOptions(i) == DictDel(sshconfig[i], kHost)

\* the matching rules other than the default one
OwnMatches == MatchSet \ {1}

\* C13: the mapping lookup returns holds every option of the default rule,
\* with the default rule's value unless a matching rule other than the
\* default one sets the key, and every option of each such matching rule,
\* and no key besides; for a name that matches only the default rule it is
\* the default rule's options.
C13_LookupContainsDefaults ==
    pc = "looked" =>
       /\ \A k \in DOMAIN RuleOptions(1) :
             /\ k \in DOMAIN host1.config
             /\ (\A i \in OwnMatches : k \notin DOMAIN sshconfig[i])
                   => host1.config[k] = sshconfig[1][k]
       /\ \A i \in OwnMatches : DOMAIN RuleOptions(i) \subseteq DOMAIN host1.config
       /\ DOMAIN host1.config
             \subseteq UNION {DOMAIN RuleOptions(i) : i \in MatchSet}
       /\ OwnMatches = {} => host1.config = RuleOptions(1)

\* the default rule has a port, the rule of h1 has a hostname and no port:
\* h1 gets both
C13_Witness ==
    /\ pc = "looked"
    /\ host1.name = nH1
    /\ DOMAIN RuleOptions(1) = {kPort}
    /\ \E i \in OwnMatches :
          /\ sshconfig[i][kHost] = nH1
          /\ DOMAIN RuleOptions(i) = {kHostname}
    /\ DOMAIN host1.config = {kPort, kHostname}
    /\ host1.config[kPort] = sshconfig[1][kPort]

(* ------------------------------------------------------------------ *)
(* C14                                                                 *)
(* ------------------------------------------------------------------ *)

\* every call of the first set was made before every call of the second
Before(S, T) == \A i \in S, j \in T : i < j

HasIdentity(h) == kIdentityfile \in DOMAIN h.config

\* the run went from key loading on to the transfer step
ReachedScp == pc = "scp" \/ PastScp

\* C14: the steps run in the order resolve, agent session, key loading,
\* transfer, agent stop, each at most once and none before the one ahead of
\* it: no child process is run before both hosts are resolved, ssh-add,
\* the transfer and the stop need the session, the transfer is reached
\* only with key loading done (ssh-add ended well, or nothing to load) and
\* is never run after a failed ssh-add, ssh-add is run at most once, with
\* host1's identity file before host2's, exactly when one of the two
\* resolved configs has an identity file, and a run that ends well has
\* made the transfer.
C14_StepsInOrder ==
    /\ Cardinality(SpawnCalls) <= 1
    /\ Cardinality(AddCalls) <= 1
    /\ Cardinality(ScpCalls) <= 1
    /\ Cardinality(StopCalls) <= 1
    /\ Before(SpawnCalls, AddCalls \cup ScpCalls \cup StopCalls)
    /\ Before(AddCalls, ScpCalls \cup StopCalls)
    /\ Before(ScpCalls, StopCalls)
    /\ (commands # << >> \/ HasSession) => Resolved
    /\ (AddCalls \cup ScpCalls \cup StopCalls # {}) => HasSession
    /\ (pc = "load_keys") => (HasSession /\ AddCalls \cup ScpCalls \cup StopCalls = {})
    /\ (pc = "scp") => (ScpCalls \cup StopCalls = {})
    /\ (ScpCalls # {} \/ pc = "scp") => \A i \in AddCalls : commands[i].outcome = "ok"
    /\ (\E i \in AddCalls : commands[i].outcome # "ok") => (ScpCalls = {} /\ pc # "scp")
    /\ \A i \in AddCalls :
          commands[i].argv =
             <<SSH_ADD_PATH>>
             \o (IF HasIdentity(host1) THEN <<host1.config[kIdentityfile]>> ELSE << >>)
             \o (IF HasIdentity(host2) THEN <<host2.config[kIdentityfile]>> ELSE << >>)
    /\ (Resolved /\ ~HasIdentity(host1) /\ ~HasIdentity(host2)) => AddCalls = {}
    /\ (ReachedScp /\ (HasIdentity(host1) \/ HasIdentity(host2))) => AddCalls # {}
    /\ (pc = "exit" /\ exit_code = Some(ExitOk)) =>
          /\ ScpCalls # {}
          /\ \A i \in DOMAIN commands : commands[i].outcome = "ok"

\* both hosts known, each with its own identity file: ssh-add got host1's
\* and then host2's, ended well, and the transfer followed
C14_Witness ==
    /\ KnownBoth
    /\ HasIdentity(host1) /\ HasIdentity(host2)
    /\ host1.config[kIdentityfile] # host2.config[kIdentityfile]
    /\ \E i \in AddCalls, j \in ScpCalls :
          /\ i < j
          /\ commands[i].outcome = "ok"
          /\ commands[i].argv = <<SSH_ADD_PATH, host1.config[kIdentityfile],
                                  host2.config[kIdentityfile]>>

(* ------------------------------------------------------------------ *)
(* C15                                                                 *)
(* ------------------------------------------------------------------ *)

\* the line the step parses, split as parse() splits it
NextLine == LStrip(RStripNL(line'))
NextSkipped == NextLine = << >> \/ Head(NextLine) = "#"
NextIsHost == ~NextSkipped /\ SplitLine(NextLine).ok /\ SplitLine(NextLine).key = kHost
NextIsOption == ~NextSkipped /\ SplitLine(NextLine).ok /\ SplitLine(NextLine).key # kHost

\* rule i after the step is rule i before it with key set to value
RuleWritten(i, key, value) ==
    /\ DOMAIN sshconfig'[i] = DOMAIN sshconfig[i] \cup {key}
    /\ sshconfig'[i][key] = value
    /\ \A k \in DOMAIN sshconfig[i] \ {key} : sshconfig'[i][k] = sshconfig[i][k]

\* what one parsed line does to the rules and to the active set
ParseFrame ==
    /\ nlines = 0 => (configs = <<1>> /\ sshconfig = <<(kHost :> Star)>>)
    /\ nlines' = nlines + 1 =>
          /\ Len(sshconfig') >= Len(sshconfig)
          /\ sshconfig'[1][kHost] = Star
          /\ \A i \in 1..Len(sshconfig) : sshconfig'[i][kHost] = sshconfig[i][kHost]
          /\ (NextSkipped \/ ~SplitLine(NextLine).ok) =>
                (sshconfig' = sshconfig /\ configs' = configs)
          /\ NextIsOption =>
                /\ configs' = configs
                /\ Len(sshconfig') = Len(sshconfig)
                /\ \A i \in 1..Len(sshconfig) :
                      IF i \in Range(configs)
                      THEN RuleWritten(i, SplitLine(NextLine).key, SplitLine(NextLine).value)
                      ELSE sshconfig'[i] = sshconfig[i]
          /\ NextIsHost =>
                /\ \A i \in 1..Len(sshconfig) : sshconfig'[i] = sshconfig[i]
                /\ \A i \in (Len(sshconfig) + 1)..Len(sshconfig') :
                      /\ DOMAIN sshconfig'[i] = {kHost}
                      /\ i \in Range(configs')
                /\ Range(configs') \subseteq 1..Len(sshconfig')
                /\ {sshconfig'[i][kHost] : i \in Range(configs')}
                      = Range(Split(SplitLine(NextLine).value))
                /\ Split(SplitLine(NextLine).value) = << >> => configs' = << >>

\* C15: every parsed line leaves the rule list with the default rule first
\* and every rule's pattern as it was, and removes no rule; an option line
\* writes its pair into every active rule, leaves every other rule and the
\* active set as they were; a host line changes no option, and makes the
\* active set exactly the rules of the patterns it names, all of them and
\* none if it names none; before any line the active set is the default
\* rule; a skipped or unparsable line changes nothing.
C15_ParseFrame == [][ParseFrame]_vars

\* an option line after a host line of two patterns: both rules hold the
\* option, the default rule does not
C15_Witness ==
    /\ pc = "parse"
    /\ line = LnHostname
    /\ Len(configs) = 2
    /\ \A i \in Range(configs) : kHostname \in DOMAIN sshconfig[i]
    /\ kHostname \notin DOMAIN sshconfig[1]

(* ------------------------------------------------------------------ *)
(* C16                                                                 *)
(* ------------------------------------------------------------------ *)

\* C16: when each of the two host names matches a rule other than the
\* default one, the run is not ended by the 'Unknown host' error, whatever
\* options the matching rules hold.
C16_KnownHostNeverRejected ==
    KnownBoth => exc # [type |-> "ScpError", msg |-> "Unknown host"]

(* ------------------------------------------------------------------ *)
(* C17                                                                 *)
(* ------------------------------------------------------------------ *)

\* ssh-add or the transfer was ended by an interrupt
Interrupted == \E i \in AddCalls \cup ScpCalls : commands[i].outcome = "interrupt"

\* the scp step raised before it ran a child: the KeyError of a config
\* without hostname
ScpRaisedInternally == PastScp /\ ScpCalls = {}

\* C17: in a run that owns its session, when ssh-add or the transfer was
\* interrupted, or the scp step raised an internal error, ssh_agent_stop
\* has been called exactly once by the time the finally block is left, and
\* so when the run ends; it was not called before the finally block.
C17_StopOnAbnormalEnd ==
    (agent_started /\ (Interrupted \/ ScpRaisedInternally)) =>
       /\ pc = "finally" => StopCalls = {}
       /\ pc \in {"except", "uncaught", "return", "exit"} => Cardinality(StopCalls) = 1

\* an owned session, the transfer interrupted, the agent stopped, and the
\* interrupt ending the run with a traceback
C17_Witness ==
    /\ pc = "exit"
    /\ agent_started
    /\ \E i \in ScpCalls : commands[i].outcome = "interrupt"
    /\ \E i \in StopCalls : commands[i].outcome = "ok"
    /\ exc.type = "KeyboardInterrupt"
    /\ exit_code = Some(ExitTraceback)

(* ------------------------------------------------------------------ *)
(* C18                                                                 *)
(* ------------------------------------------------------------------ *)

\* the agent executable was started by this run and exited zero
SpawnedOk == \E i \in SpawnCalls : commands[i].outcome = "ok"

\* C18: a run that has ended and had started the agent executable, which
\* exited zero, has called ssh_agent_stop.
C18_SpawnedAgentStopped ==
    (pc = "exit" /\ KnownBoth /\ SpawnedOk) => StopCalls # {}

====
